---- MODULE Spec2Model ----
(***************************************************************************)
(* Model of Document.Build (src/build.go): the discount/tax cascade of     *)
(* appendTotal and the sequential layout cursor of Build/appendItems.      *)
(*                                                                         *)
(* Money values are decimals c * 10^(-e), kept normalised (no trailing     *)
(* zero digit), with the arithmetic of the decimal library the code calls: *)
(* Add, Sub and Mul are exact, Div rounds half away from zero to           *)
(* DivisionPrecision fractional digits and faults on a zero divisor.       *)
(***************************************************************************)
EXTENDS Integers, Sequences, FiniteSets, TLC

VARIABLES pc, d, d0, y, pages, trace, i, companyBottom, totals, ret

vars == <<pc, d, d0, y, pages, trace, i, companyBottom, totals, ret>>

\* --------------------------------------------------------------- bounds

\* Longest item list drawn for the layout specification.
MaxItems == 3

\* Longest item list drawn for the totals specification.
MaxCalcItems == 2

\* ------------------------------------------------------------ constants

\* Fractional digits kept by Decimal.Div (scaled down from the library's 16
\* so that every coefficient stays inside TLC's 32-bit integers).
DivisionPrecision == 4

\* Options.CurrencyPrecision: digits shown by FormatMoneyDecimal.
CurrencyPrecision == 2

\* Cursor threshold compared at build.go:80 and build.go:268.
MaxPageHeight == 260

\* Top margin: the cursor's Y after AddPage (build.go:23).
BaseMarginTop == 20

\* ------------------------------------------------------------- decimals

Abs(n) == IF n < 0 THEN 0 - n ELSE n

Sign(n) == IF n < 0 THEN 0 - 1 ELSE IF n > 0 THEN 1 ELSE 0

Min(a, b) == IF a < b THEN a ELSE b

Max(a, b) == IF a < b THEN b ELSE a

RECURSIVE Pow10(_)
Pow10(n) == IF n = 0 THEN 1 ELSE 10 * Pow10(n - 1)

\* Canonical form of c * 10^(-e): trailing zero digits removed.
RECURSIVE Norm(_)
Norm(x) ==
    IF x.c = 0 THEN [c |-> 0, e |-> 0]
    ELSE IF x.e > 0 /\ x.c % 10 = 0 THEN Norm([c |-> x.c \div 10, e |-> x.e - 1])
    ELSE x

Dec(c, e) == Norm([c |-> c, e |-> e])

DecInt(n) == Dec(n, 0)

Zero == DecInt(0)

Hundred == DecInt(100)

IsZero(a) == a.c = 0

DecAdd(a, b) ==
    LET m == Max(a.e, b.e)
    IN  Dec(a.c * Pow10(m - a.e) + b.c * Pow10(m - b.e), m)

DecNeg(a) == [c |-> 0 - a.c, e |-> a.e]

DecSub(a, b) == DecAdd(a, DecNeg(b))

DecMul(a, b) == Dec(a.c * b.c, a.e + b.e)

\* a < b, a = b, a > b as -1, 0, 1.
DecCmp(a, b) == Sign(DecSub(a, b).c)

DecAbs(a) == [c |-> Abs(a.c), e |-> a.e]

\* Decimal.DivRound(b, prec): the quotient truncated to prec digits, then
\* moved one unit away from zero when twice the remainder reaches |b|.
\* Only called with a non-zero divisor (the library panics otherwise).
DivRound(a, b, prec) ==
    LET k   == Min(b.e + prec, a.e)
        n   == Abs(a.c) * Pow10(b.e + prec - k)
        dd  == Abs(b.c) * Pow10(a.e - k)
        q   == n \div dd
        r   == n % dd
        up  == IF 2 * r >= dd THEN q + 1 ELSE q
    IN  Dec(Sign(a.c) * Sign(b.c) * up, prec)

DecDiv(a, b) == DivRound(a, b, DivisionPrecision)

\* Decimal.Round(places) as used by StringFixed: half away from zero.
DecRound(a, places) ==
    IF a.e <= places THEN a
    ELSE LET p  == Pow10(a.e - places)
             q  == Abs(a.c) \div p
             r  == Abs(a.c) % p
             up == IF 2 * r >= p THEN q + 1 ELSE q
         IN  Dec(Sign(a.c) * up, places)

\* ------------------------------------------------- Discount, Tax, Item

\* An unset *Discount or *Tax (a nil pointer).
Nil == [type |-> "nil", num |-> Zero]

Percent(p) == [type |-> "percent", num |-> p]

Amount(a) == [type |-> "amount", num |-> a]

\* Discount.getDiscount / Tax.getTax: the variant's tag and its number.
getType(v) == v.type

getNumber(v) == v.num

\* Discount or Tax resolved against a base amount.
resolve(v, base) ==
    IF getType(v) = "amount" THEN getNumber(v)
    ELSE IF getType(v) = "percent" THEN DecDiv(DecMul(base, getNumber(v)), Hundred)
    ELSE Zero

subtotal(item) == DecMul(item.qty, item.price)

totalWithoutTaxAndWithDiscount(item) ==
    DecSub(subtotal(item), resolve(item.discount, subtotal(item)))

taxWithDiscount(item) == resolve(item.tax, totalWithoutTaxAndWithDiscount(item))

\* ---------------------------------------------- appendTotal: the numbers

RECURSIVE DecSum(_)
DecSum(s) == IF s = <<>> THEN Zero ELSE DecAdd(Head(s), DecSum(Tail(s)))

\* build.go:309-313
SumTotal(items) ==
    DecSum([k \in 1..Len(items) |-> totalWithoutTaxAndWithDiscount(items[k])])

\* TotalWithDiscount with the percentage subtracted as if it were an amount.
TotalWithDiscountPercentAsAmount(total, disc) ==
    IF disc = Nil THEN Zero ELSE DecSub(total, getNumber(disc))

\* TotalWithDiscount starting from total instead of zero.
TotalWithDiscountFromTotal(total, disc) ==
    IF disc = Nil THEN total
    ELSE IF getType(disc) = "amount" THEN DecSub(total, getNumber(disc))
    ELSE DecSub(total, DecMul(total, DecDiv(getNumber(disc), Hundred)))

\* build.go:316-327
TotalWithDiscount(total, disc) ==
    IF disc = Nil THEN Zero
    ELSE IF getType(disc) = "amount" THEN DecSub(total, getNumber(disc))
    ELSE DecSub(total, DecMul(total, DecDiv(getNumber(disc), Hundred)))

\* build.go:340 divides by totalWithDiscount.
PercentFaults(disc, totalWithDiscount) ==
    getType(disc) = "amount" /\ IsZero(totalWithDiscount)

\* DiscountPercent taken relative to the total before the discount.
DiscountPercentOfTotal(disc, total, totalWithDiscount) ==
    IF getType(disc) = "amount"
    THEN (IF IsZero(total) THEN Zero
          ELSE DecDiv(DecMul(getNumber(disc), Hundred), total))
    ELSE getNumber(disc)

\* build.go:336-341 (total is in scope there and not read)
DiscountPercent(disc, total, totalWithDiscount) ==
    IF getType(disc) = "amount"
    THEN DecDiv(DecMul(getNumber(disc), Hundred), totalWithDiscount)
    ELSE getNumber(disc)

\* ItemTotalDiscounted with the percentage subtracted as points, not as a
\* share of the item total.
ItemTotalDiscountedPoints(item, discountPercent) ==
    DecSub(totalWithoutTaxAndWithDiscount(item), discountPercent)

\* build.go:351-353
ItemTotalDiscounted(item, discountPercent) ==
    LET itemTotal == totalWithoutTaxAndWithDiscount(item)
        toSub     == DecDiv(DecMul(discountPercent, itemTotal), Hundred)
    IN  DecSub(itemTotal, toSub)

\* ItemTaxDiscounted with the document discount applied to a flat tax too.
ItemTaxDiscountedFlatToo(item, discountPercent) ==
    IF item.tax = Nil THEN Zero
    ELSE IF getType(item.tax) = "amount"
    THEN DecSub(getNumber(item.tax),
                DecDiv(DecMul(discountPercent, getNumber(item.tax)), Hundred))
    ELSE DecDiv(DecMul(getNumber(item.tax), ItemTotalDiscounted(item, discountPercent)),
                Hundred)

\* ItemTaxDiscounted with the tax taken on the item total before the
\* document discount.
ItemTaxUndiscounted(item, discountPercent) ==
    IF item.tax = Nil THEN Zero
    ELSE IF getType(item.tax) = "amount" THEN getNumber(item.tax)
    ELSE DecDiv(DecMul(getNumber(item.tax), totalWithoutTaxAndWithDiscount(item)),
                Hundred)

\* build.go:344-360: one item's share of totalTax under a document discount.
ItemTaxDiscounted(item, discountPercent) ==
    IF item.tax = Nil THEN Zero
    ELSE IF getType(item.tax) = "amount" THEN getNumber(item.tax)
    ELSE DecDiv(DecMul(getNumber(item.tax), ItemTotalDiscounted(item, discountPercent)),
                Hundred)

\* build.go:330-362: the addends of totalTax, item by item.
TaxContribs(items, disc, discountPercent) ==
    [k \in 1..Len(items) |->
        IF disc = Nil THEN taxWithDiscount(items[k])
        ELSE ItemTaxDiscounted(items[k], discountPercent)]

\* TotalWithTax without the test for a document discount.
TotalWithTaxAlwaysDiscounted(total, totalWithDiscount, totalTax, disc) ==
    DecAdd(totalWithDiscount, totalTax)

\* build.go:365-368
TotalWithTax(total, totalWithDiscount, totalTax, disc) ==
    IF disc # Nil THEN DecAdd(totalWithDiscount, totalTax)
    ELSE DecAdd(total, totalTax)

\* build.go:413 divides by total while writing the discount description.
DescFaults(disc, total) == getType(disc) = "amount" /\ IsZero(total)

\* The record of what appendTotal computed and where it stopped:
\* fault is "none", "div340" (panic at build.go:340, nothing after line 327
\* computed, nothing drawn) or "div413" (panic at build.go:413, all four
\* numbers computed, the block half drawn).
appendTotalCalc(items, disc) ==
    LET total == SumTotal(items)
        twd   == TotalWithDiscount(total, disc)
    IN  IF PercentFaults(disc, twd)
        THEN [fault |-> "div340", total |-> total, totalWithDiscount |-> twd,
              discountPercent |-> Zero, taxContrib |-> <<>>,
              totalTax |-> Zero, totalWithTax |-> Zero]
        ELSE LET dp  == IF disc = Nil THEN Zero ELSE DiscountPercent(disc, total, twd)
                 tc  == TaxContribs(items, disc, dp)
                 tax == DecSum(tc)
             IN  [fault |-> IF DescFaults(disc, total) THEN "div413" ELSE "none",
                  total |-> total, totalWithDiscount |-> twd,
                  discountPercent |-> dp, taxContrib |-> tc,
                  totalTax |-> tax,
                  totalWithTax |-> TotalWithTax(total, twd, tax, disc)]

\* totals before appendTotal has run.
NoTotals ==
    [fault |-> "unset", total |-> Zero, totalWithDiscount |-> Zero,
     discountPercent |-> Zero, taxContrib |-> <<>>,
     totalTax |-> Zero, totalWithTax |-> Zero]

\* FormatMoneyDecimal's number: the amount at the currency precision.
Shown(a) == DecRound(a, CurrencyPrecision)

\* ------------------------------------------------- the documents drawn

\* Items of the layout specification: quantity 2 at unit price 100.
LayoutItems ==
    [qty : {DecInt(2)}, price : {DecInt(100)}, discount : {Nil},
     tax : {Nil, Percent(DecInt(20))}]

LayoutDiscounts == {Nil, Amount(DecInt(50)), Amount(DecInt(200))}

LayoutDefaultTaxes == {Nil, Amount(DecInt(5))}

\* Items of the totals specification, as appendTotal finds them.
CalcItems ==
    [qty : {DecInt(0), DecInt(1), DecInt(2)}, price : {DecInt(100)},
     discount : {Nil, Percent(DecInt(50))},
     tax : {Nil, Percent(DecInt(20)), Amount(DecInt(5))}]

CalcDiscounts ==
    {Nil, Percent(DecInt(10)), Percent(Dec(125, 1)),
     Amount(DecInt(50)), Amount(DecInt(200))}

\* Sequences over S of length lo..hi.
SeqOfLen(S, lo, hi) == UNION {[1..k -> S] : k \in lo..hi}

\* MultiCell heights of the description, of the notes and of an item row
\* (the name cell is 3 high; a long description makes a tall row).
DescHeights == {170}

NoteHeights == {4, 40}

RowHeights == {3, 120}

\* Bottom of the company and of the customer contact block.
CompanyBottoms == {60}

CustomerBottoms == {50, 70}

\* --------------------------------------------------------- layout trace

\* One layout call on the drawing surface: the block, the line of build.go
\* that makes the call, the cursor Y where the block starts and the cursor
\* Y it leaves.
Ev(ev, line, from, to) == [ev |-> ev, line |-> line, y0 |-> from, y1 |-> to]

\* ----------------------------------------------------------------- Init

Init ==
    /\ pc = "validate"
    /\ d \in [Items : SeqOfLen(LayoutItems, 0, MaxItems),
              Discount : LayoutDiscounts,
              DefaultTax : LayoutDefaultTaxes,
              Header : {"nil", "ok", "err"},
              Footer : {"nil", "ok", "err"},
              Description : BOOLEAN,
              Notes : BOOLEAN,
              PaymentTerm : BOOLEAN]
    /\ d0 = d
    /\ y = 0
    /\ pages = 0
    /\ trace = <<>>
    /\ i = 0
    /\ companyBottom = 0
    /\ totals = NoTotals
    /\ ret = [pdf |-> FALSE, err |-> "pending"]

\* ---------------------------------------------------------------- Build

\* Document.Validate: the item list must not be empty.
Validate(doc) == Len(doc.Items) > 0

\* ReturnError handing the drawing surface back with the error.
ReturnErrorWithPdf(err) == [pdf |-> TRUE, err |-> err]

\* build.go:18, 32, 41: return nil, err
ReturnError(err) == [pdf |-> FALSE, err |-> err]

\* build.go:98: return pdf, nil
ReturnPdf == [pdf |-> TRUE, err |-> "nil"]

\* Following with appendTotal called before appendNotes.
FollowingTotalFirst(step) ==
    CASE step = "firstPage"   -> "title"
      [] step = "title"       -> "metas"
      [] step = "metas"       -> "company"
      [] step = "company"     -> "customer"
      [] step = "customer"    -> "description"
      [] step = "description" -> "items"
      [] step = "items"       -> "check"
      [] step = "check"       -> "total"
      [] step = "total"       -> "notes"
      [] step = "notes"       -> "paymentTerm"
      [] step = "paymentTerm" -> "done"

\* build.go:46-91: the step Build takes after each of its steps.
Following(step) ==
    CASE step = "firstPage"   -> "title"
      [] step = "title"       -> "metas"
      [] step = "metas"       -> "company"
      [] step = "company"     -> "customer"
      [] step = "customer"    -> "description"
      [] step = "description" -> "items"
      [] step = "items"       -> "check"
      [] step = "check"       -> "notes"
      [] step = "notes"       -> "total"
      [] step = "total"       -> "paymentTerm"
      [] step = "paymentTerm" -> "done"

\* build.go:16-25
BuildValidate ==
    /\ pc = "validate"
    /\ IF Validate(d)
       THEN /\ pc' = "header"
            /\ y' = 10
            /\ ret' = ret
       ELSE /\ pc' = "done"
            /\ y' = y
            /\ ret' = ReturnError("validation")
    /\ UNCHANGED <<d, d0, pages, trace, i, companyBottom, totals>>

\* build.go:28-34
BuildHeader ==
    /\ pc = "header"
    /\ IF d.Header = "err"
       THEN /\ pc' = "done"
            /\ ret' = ReturnError("header")
            /\ trace' = trace
       ELSE /\ pc' = "footer"
            /\ ret' = ret
            /\ trace' = IF d.Header = "ok"
                        THEN Append(trace, Ev("header", 29, y, y)) ELSE trace
    /\ UNCHANGED <<d, d0, y, pages, i, companyBottom, totals>>

\* build.go:37-43
BuildFooter ==
    /\ pc = "footer"
    /\ IF d.Footer = "err"
       THEN /\ pc' = "done"
            /\ ret' = ReturnError("footer")
            /\ trace' = trace
       ELSE /\ pc' = "firstPage"
            /\ ret' = ret
            /\ trace' = IF d.Footer = "ok"
                        THEN Append(trace, Ev("footer", 38, y, y)) ELSE trace
    /\ UNCHANGED <<d, d0, y, pages, i, companyBottom, totals>>

\* build.go:46-49
BuildFirstPage ==
    /\ pc = "firstPage"
    /\ pc' = Following("firstPage")
    /\ pages' = pages + 1
    /\ y' = BaseMarginTop
    /\ trace' = Append(trace, Ev("addPage", 46, y, BaseMarginTop))
    /\ UNCHANGED <<d, d0, i, companyBottom, totals, ret>>

\* build.go:101-114
appendTitle ==
    /\ pc = "title"
    /\ pc' = Following("title")
    /\ y' = BaseMarginTop
    /\ trace' = Append(trace, Ev("title", 52, BaseMarginTop, BaseMarginTop))
    /\ UNCHANGED <<d, d0, pages, i, companyBottom, totals, ret>>

\* build.go:116-141
appendMetas ==
    /\ pc = "metas"
    /\ pc' = Following("metas")
    /\ y' = BaseMarginTop + 19
    /\ trace' = Append(trace, Ev("metas", 55, BaseMarginTop + 11, BaseMarginTop + 19))
    /\ UNCHANGED <<d, d0, pages, i, companyBottom, totals, ret>>

\* build.go:58
appendCompanyContactToDoc ==
    /\ pc = "company"
    /\ pc' = Following("company")
    /\ \E b \in CompanyBottoms :
          /\ companyBottom' = b
          /\ y' = b
          /\ trace' = Append(trace, Ev("company", 58, BaseMarginTop, b))
    /\ UNCHANGED <<d, d0, pages, i, totals, ret>>

\* build.go:61-67
appendCustomerContactToDoc ==
    /\ pc = "customer"
    /\ pc' = Following("customer")
    /\ \E customerBottom \in CustomerBottoms :
          /\ y' = IF customerBottom > companyBottom
                  THEN customerBottom ELSE companyBottom
          /\ trace' = Append(trace, Ev("customer", 61, BaseMarginTop, customerBottom))
    /\ UNCHANGED <<d, d0, pages, i, companyBottom, totals, ret>>

\* build.go:143-149
appendDescription ==
    /\ pc = "description"
    /\ pc' = Following("description")
    /\ IF d.Description
       THEN \E h \in DescHeights :
               /\ y' = y + 10 + h
               /\ trace' = Append(trace, Ev("description", 70, y + 10, y + 10 + h))
       ELSE /\ y' = y
            /\ trace' = trace
    /\ UNCHANGED <<d, d0, pages, i, companyBottom, totals, ret>>

\* build.go:151-159: the headers are drawn 5 below the cursor, which stays
\* at their top edge.
drawsTableTitles(line, from) == Ev("tableTitles", line, from + 5, from + 5)

\* build.go:251-255, and the loop's test at its first evaluation.
appendItemsStart ==
    /\ pc = "items"
    /\ pc' = IF Len(d.Items) > 0 THEN "row" ELSE Following("items")
    /\ i' = 0
    /\ y' = y + 5 + 8
    /\ trace' = Append(trace, drawsTableTitles(251, y))
    /\ UNCHANGED <<d, d0, pages, companyBottom, totals, ret>>

\* ResolveTax assigning to a copy of the item: the list keeps the unset tax.
ResolveTaxOnCopy(item, defaultTax) == item

\* ResolveTax overwriting the tax an item already has.
ResolveTaxAlways(item, defaultTax) == [item EXCEPT !.tax = defaultTax]

\* build.go:261-263: item is d.Items[i] itself (a pointer), so the
\* assignment is seen by every later reader of the list.
ResolveTax(item, defaultTax) ==
    IF item.tax = Nil THEN [item EXCEPT !.tax = defaultTax] ELSE item

\* RowOverflows on the projected position of the next row.
RowOverflowsProjected(yAfterRow) == yAfterRow + 6 > MaxPageHeight

\* build.go:268: the cursor left by a row calls for a page break.
RowOverflows(yAfterRow) == yAfterRow > MaxPageHeight

\* build.go:268-273: what a row that leaves the cursor at yRow is followed by.
RowBreak(yRow) ==
    IF RowOverflows(yRow)
    THEN <<Ev("addPage", 270, yRow, BaseMarginTop),
           drawsTableTitles(271, BaseMarginTop)>>
    ELSE <<>>

\* build.go:257-277: one iteration of the loop (i counts from 0 as in the
\* code; the list is 1-based here).
appendItemRow ==
    /\ pc = "row"
    /\ \E h \in RowHeights :
          LET yRow   == y + h
              events == RowBreak(yRow)
              yNext  == IF events = <<>> THEN yRow ELSE events[Len(events)].y1
          IN  /\ d' = [d EXCEPT !.Items[i + 1] = ResolveTax(d.Items[i + 1], d.DefaultTax)]
              /\ trace' = Append(trace, Ev("row", 266, y, yRow)) \o events
              /\ pages' = IF events = <<>> THEN pages ELSE pages + 1
              /\ y' = yNext + 6
    /\ i' = i + 1
    /\ pc' = IF i + 1 < Len(d.Items) THEN "row" ELSE Following("items")
    /\ UNCHANGED <<d0, companyBottom, totals, ret>>

\* build.go:76-79
TotalOffset(yy, disc) == IF disc # Nil THEN yy + 30 + 15 ELSE yy + 30

\* build.go:75-82
BuildCheckPageHeight ==
    /\ pc = "check"
    /\ pc' = Following("check")
    /\ IF TotalOffset(y, d.Discount) > MaxPageHeight
       THEN /\ pages' = pages + 1
            /\ y' = BaseMarginTop
            /\ trace' = Append(trace, Ev("addPage", 81, y, BaseMarginTop))
       ELSE UNCHANGED <<pages, y, trace>>
    /\ UNCHANGED <<d, d0, i, companyBottom, totals, ret>>

\* NotesCursor leaving the cursor where the notes end.
NotesCursorBelow(currentY, h) == currentY + 10 + h

\* build.go:285 and 297: the cursor after the notes is the one before them.
NotesCursor(currentY, h) == currentY

\* build.go:280-298: the notes start 10 below the cursor, then the cursor
\* is put back where it was.
appendNotes ==
    /\ pc = "notes"
    /\ pc' = Following("notes")
    /\ IF d.Notes
       THEN \E h \in NoteHeights :
               /\ trace' = Append(trace, Ev("notes", 85, y + 10, y + 10 + h))
               /\ y' = NotesCursor(y, h)
       ELSE UNCHANGED <<y, trace>>
    /\ UNCHANGED <<d, d0, pages, i, companyBottom, totals, ret>>

\* build.go:370-456: the cursor after the block. TOTAL HT at y+10, the
\* discount row (15 high) or nothing 10 lower, the tax row, and 10 lower the
\* TOTAL TTC row, where the cursor stays.
TotalEndY(yy, disc) ==
    IF disc # Nil THEN yy + 10 + 10 + 15 + 10 ELSE yy + 10 + 10 + 10

\* build.go:446-456: the lower edge of the block, the TOTAL TTC row being 10
\* high.
TotalBottom(yy, disc) == TotalEndY(yy, disc) + 10

\* build.go:300-457. A division by zero unwinds Build, which then returns
\* nothing: at line 340 before anything of the block is drawn, at line 413
\* with the TOTAL HT row and the discount title drawn (cursor at baseY; the
\* description line 7.5 lower is not on the integer grid).
appendTotal ==
    /\ pc = "total"
    /\ totals' = appendTotalCalc(d.Items, d.Discount)
    /\ IF totals'.fault = "div340"
       THEN /\ pc' = "panic"
            /\ UNCHANGED <<y, trace>>
       ELSE IF totals'.fault = "div413"
       THEN /\ pc' = "panic"
            /\ y' = y + 10 + 10
            /\ trace' = Append(trace, Ev("totals", 88, y + 10, y + 10 + 10))
       ELSE /\ pc' = Following("total")
            /\ y' = TotalEndY(y, d.Discount)
            /\ trace' = Append(trace, Ev("totals", 88, y + 10, TotalEndY(y, d.Discount)))
    /\ UNCHANGED <<d, d0, pages, i, companyBottom, ret>>

\* build.go:459-468 and 93-98
appendPaymentTerm ==
    /\ pc = "paymentTerm"
    /\ pc' = Following("paymentTerm")
    /\ ret' = ReturnPdf
    /\ IF d.PaymentTerm
       THEN /\ y' = y + 15
            /\ trace' = Append(trace, Ev("paymentTerm", 91, y + 15, y + 15))
       ELSE UNCHANGED <<y, trace>>
    /\ UNCHANGED <<d, d0, pages, i, companyBottom, totals>>

Next ==
    \/ BuildValidate
    \/ BuildHeader
    \/ BuildFooter
    \/ BuildFirstPage
    \/ appendTitle
    \/ appendMetas
    \/ appendCompanyContactToDoc
    \/ appendCustomerContactToDoc
    \/ appendDescription
    \/ appendItemsStart
    \/ appendItemRow
    \/ BuildCheckPageHeight
    \/ appendNotes
    \/ appendTotal
    \/ appendPaymentTerm

Spec == Init /\ [][Next]_vars

\* ------------------------------------------- the totals specification

\* appendTotal's computation on its own: a validated document whose items
\* went through appendItems, at the call of build.go:88.
InitCalc ==
    /\ pc = "calc"
    /\ d \in [Items : SeqOfLen(CalcItems, 1, MaxCalcItems),
              Discount : CalcDiscounts,
              DefaultTax : {Nil},
              Header : {"nil"},
              Footer : {"nil"},
              Description : {FALSE},
              Notes : {FALSE},
              PaymentTerm : {FALSE}]
    /\ d0 = d
    /\ y = 0
    /\ pages = 0
    /\ trace = <<>>
    /\ i = 0
    /\ companyBottom = 0
    /\ totals = NoTotals
    /\ ret = [pdf |-> FALSE, err |-> "pending"]

\* build.go:308-368
CalcTotal ==
    /\ pc = "calc"
    /\ pc' = "calcDone"
    /\ totals' = appendTotalCalc(d.Items, d.Discount)
    /\ UNCHANGED <<d, d0, y, pages, trace, i, companyBottom, ret>>

NextCalc == CalcTotal

SpecCalc == InitCalc /\ [][NextCalc]_vars

\* ------------------------------------------------ claims on the totals

\* appendTotal has computed its numbers (it may have faulted afterwards).
Computed == totals.fault \in {"none", "div413"}

ItemTotals == [k \in 1..Len(d.Items) |-> totalWithoutTaxAndWithDiscount(d.Items[k])]

ItemTaxes == [k \in 1..Len(d.Items) |-> taxWithDiscount(d.Items[k])]

\* The item of the spec's concrete scenarios: 2 x 100, no item discount,
\* Percent(20) tax.
ScenarioItem ==
    [qty |-> DecInt(2), price |-> DecInt(100), discount |-> Nil,
     tax |-> Percent(DecInt(20))]

\* C1: with no document discount the grand total is the sum of the items'
\* totalWithoutTaxAndWithDiscount() plus the sum of their taxWithDiscount();
\* for the scenario item alone: total 200, totalTax 40, grandTotal 240.
C1_GrandTotalNoDiscount ==
    (Computed /\ d.Discount = Nil) =>
        /\ totals.totalWithTax = DecAdd(DecSum(ItemTotals), DecSum(ItemTaxes))
        /\ (d.Items = <<ScenarioItem>> =>
               /\ totals.total = DecInt(200)
               /\ totals.totalTax = DecInt(40)
               /\ totals.totalWithTax = DecInt(240))

C1_Witness ==
    /\ Computed
    /\ d.Discount = Nil
    /\ d.Items = <<ScenarioItem>>
    /\ totals.totalWithTax = DecInt(240)

\* C2: with a document discount, totalAfterDiscount is total - a for
\* Amount(a), and for Percent(p) it is total - total*p/100, which is exactly
\* total*(1 - p/100): 100 * totalAfterDiscount = total * (100 - p).
C2_TotalAfterDiscount ==
    (totals.fault # "unset" /\ d.Discount # Nil) =>
        LET total == DecSum(ItemTotals)
            n     == getNumber(d.Discount)
        IN  IF getType(d.Discount) = "amount"
            THEN DecAdd(totals.totalWithDiscount, n) = total
            ELSE /\ DecMul(Hundred, DecSub(total, totals.totalWithDiscount))
                        = DecMul(total, n)
                 /\ DecMul(Hundred, totals.totalWithDiscount)
                        = DecMul(total, DecSub(Hundred, n))

C2_Witness ==
    /\ Computed
    /\ d.Discount = Percent(Dec(125, 1))
    /\ Len(d.Items) = 2
    /\ totals.total = DecInt(250)
    /\ totals.totalWithDiscount = Dec(21875, 2)

\* C3: with Amount(a) the effective discount percentage is a*100 divided by
\* totalAfterDiscount (the quotient at DivisionPrecision digits, rounded:
\* it is off a*100/totalAfterDiscount by at most half a unit of the last
\* digit), and not by total; with Percent(p) it is p.
C3_DiscountPercent ==
    (Computed /\ d.Discount # Nil) =>
        LET a   == getNumber(d.Discount)
            twd == totals.totalWithDiscount
            dp  == totals.discountPercent
            off == DecAbs(DecSub(DecMul(dp, twd), DecMul(a, Hundred)))
        IN  IF getType(d.Discount) = "amount"
            THEN /\ dp.e <= DivisionPrecision
                 /\ DecCmp(DecMul(DecInt(2), off),
                           DecMul(DecAbs(twd), Dec(1, DivisionPrecision))) <= 0
            ELSE dp = a

C3_Witness ==
    /\ Computed
    /\ d.Discount = Amount(DecInt(50))
    /\ totals.total = DecInt(200)
    /\ totals.totalWithDiscount = DecInt(150)
    /\ totals.discountPercent = Dec(333333, 4)

\* C4: an item with an Amount tax adds the same to totalTax with a document
\* discount (of either variant) as without one: the flat amount itself.
C4_FlatTaxUnaffected ==
    Computed =>
        \A k \in 1..Len(d.Items) :
            getType(d.Items[k].tax) = "amount" =>
                /\ totals.taxContrib[k] = appendTotalCalc(d.Items, Nil).taxContrib[k]
                /\ totals.taxContrib[k] = getNumber(d.Items[k].tax)

C4_Witness ==
    /\ Computed
    /\ d.Discount = Amount(DecInt(50))
    /\ Len(d.Items) = 2
    /\ getType(d.Items[1].tax) = "amount"
    /\ getType(d.Items[2].tax) = "percent"
    /\ totals.taxContrib[1] = DecInt(5)
    /\ totals.taxContrib[2] # taxWithDiscount(d.Items[2])

\* C5: with a document discount whose division has a zero denominator (an
\* Amount discount, the only variant appendTotal divides for, with total or
\* totalAfterDiscount zero), appendTotal raises no division fault and takes
\* the effective discount percentage as zero.
C5_NoDivisionFault ==
    (totals.fault # "unset" /\ getType(d.Discount) = "amount"
        /\ (IsZero(totals.total) \/ IsZero(totals.totalWithDiscount))) =>
        /\ totals.fault = "none"
        /\ totals.discountPercent = Zero

\* C9: the scenario item with document discount Amount(50):
\* totalAfterDiscount 150, discountPercent 33.33, the tax recomputed on
\* 133.33, totalTax 26.67 and grandTotal 176.67, each at two decimals.
C9_ScenarioAmount50 ==
    (totals.fault # "unset" /\ d.Items = <<ScenarioItem>>
        /\ d.Discount = Amount(DecInt(50))) =>
        /\ totals.fault = "none"
        /\ totals.totalWithDiscount = DecInt(150)
        /\ Shown(totals.discountPercent) = Dec(3333, 2)
        /\ Shown(ItemTotalDiscounted(ScenarioItem, totals.discountPercent)) = Dec(13333, 2)
        /\ Shown(totals.totalTax) = Dec(2667, 2)
        /\ Shown(totals.totalWithTax) = Dec(17667, 2)

C9_Witness ==
    /\ totals.fault = "none"
    /\ d.Items = <<ScenarioItem>>
    /\ d.Discount = Amount(DecInt(50))
    /\ Shown(totals.totalWithTax) = Dec(17667, 2)

\* x is the quotient n/100 as Div gives it: off n/100 by at most half a unit
\* of the last digit kept.
IsHundredth(x, n) ==
    /\ x.e <= DivisionPrecision
    /\ DecCmp(DecMul(DecInt(2), DecAbs(DecSub(DecMul(Hundred, x), n))),
              DecMul(Hundred, Dec(1, DivisionPrecision))) <= 0

\* C11: with a document discount an item with Percent(t) tax adds
\* t * (itemTotal - discountPercent*itemTotal/100) / 100 to totalTax (both
\* quotients as Div gives them), totalTax is the sum of the items'
\* contributions and grandTotal is totalAfterDiscount + totalTax.
C11_PercentTaxUnderDiscount ==
    (Computed /\ d.Discount # Nil) =>
        /\ Len(totals.taxContrib) = Len(d.Items)
        /\ \A k \in 1..Len(d.Items) :
              getType(d.Items[k].tax) = "percent" =>
                 LET itemTotal == totalWithoutTaxAndWithDiscount(d.Items[k])
                     dp        == totals.discountPercent
                     itd       == ItemTotalDiscounted(d.Items[k], dp)
                 IN  /\ IsHundredth(DecSub(itemTotal, itd), DecMul(dp, itemTotal))
                     /\ IsHundredth(totals.taxContrib[k],
                                    DecMul(getNumber(d.Items[k].tax), itd))
        /\ totals.totalTax = DecSum(totals.taxContrib)
        /\ totals.totalWithTax = DecAdd(totals.totalWithDiscount, totals.totalTax)

C11_Witness ==
    /\ Computed
    /\ d.Discount = Percent(DecInt(10))
    /\ Len(d.Items) = 2
    /\ d.Items[1].tax = Percent(DecInt(20))
    /\ d.Items[2].tax = Percent(DecInt(20))
    /\ totals.total = DecInt(300)
    /\ totals.taxContrib = <<DecInt(36), DecInt(18)>>
    /\ totals.totalWithTax = DecInt(324)

\* C14 as claimed: with no document discount the totalAfterDiscount that
\* appendTotal computes equals total.
C14_AfterDiscountIsTotal ==
    (Computed /\ d.Discount = Nil) => totals.totalWithDiscount = totals.total

\* C14: with no document discount totalWithDiscount is left at zero, and
\* the grand total is built on total itself: total + totalTax.
C14_NoDiscountLeavesZero ==
    (Computed /\ d.Discount = Nil) =>
        /\ totals.totalWithDiscount = Zero
        /\ totals.total = DecSum(ItemTotals)
        /\ totals.totalWithTax = DecAdd(totals.total, totals.totalTax)

C14_Witness ==
    /\ Computed
    /\ d.Discount = Nil
    /\ totals.total = DecInt(200)
    /\ totals.totalWithDiscount = Zero
    /\ totals.totalWithTax = DecInt(240)

\* The items' totals after the effective discount percentage is applied to
\* each of them.
ItemTotalsDiscounted ==
    [k \in 1..Len(d.Items) |-> ItemTotalDiscounted(d.Items[k], totals.discountPercent)]

\* C16: the effective discount percentage is equivalent to the document
\* discount: the items' totals, each reduced by discountPercent, add up to
\* totalAfterDiscount, for Amount(a) as for Percent(p).
C16_PercentEquivalent ==
    (totals.fault = "none" /\ d.Discount # Nil) =>
        DecSum(ItemTotalsDiscounted) = totals.totalWithDiscount

\* ------------------------------------------------ claims on the layout

IsEv(k, ev, line) ==
    k \in 1..Len(trace) /\ trace[k].ev = ev /\ trace[k].line = line

\* The rows after which the cursor is past the threshold.
Crossings == {k \in 1..Len(trace) : trace[k].ev = "row" /\ trace[k].y1 > MaxPageHeight}

\* The page breaks appendItems made.
ItemBreaks == {k \in 1..Len(trace) : IsEv(k, "addPage", 270)}

\* C6: in appendItems a row that leaves the cursor past MaxPageHeight is
\* followed by exactly one page break, a row that does not by none, and
\* right after each such page break the column headers are drawn again,
\* before any further row.
C6_OneBreakPerCrossing ==
    /\ \A k \in 1..Len(trace) :
          /\ trace[k].ev = "row" =>
                IF trace[k].y1 > MaxPageHeight
                THEN /\ IsEv(k + 1, "addPage", 270)
                     /\ IsEv(k + 2, "tableTitles", 271)
                     /\ ~IsEv(k + 3, "addPage", 270)
                ELSE ~IsEv(k + 1, "addPage", 270)
          /\ IsEv(k, "addPage", 270) =>
                k > 1 /\ trace[k - 1].ev = "row" /\ trace[k - 1].y1 > MaxPageHeight
          /\ IsEv(k, "tableTitles", 271) => IsEv(k - 1, "addPage", 270)
    /\ Cardinality(ItemBreaks) = Cardinality(Crossings)

C6_Witness ==
    /\ pc = "done"
    /\ Cardinality(Crossings) = 2
    /\ \E k \in 1..Len(trace) :
          /\ trace[k].ev = "row" /\ trace[k].y1 > MaxPageHeight
          /\ IsEv(k + 1, "addPage", 270)
          /\ IsEv(k + 2, "tableTitles", 271)
          /\ IsEv(k + 3, "row", 266)
          /\ trace[k + 3].y1 <= MaxPageHeight
          /\ IsEv(k + 4, "row", 266)

\* The tax item k holds once resolved: its own, or DefaultTax when unset.
ResolvedTax(k) ==
    IF d0.Items[k].tax = Nil THEN d0.DefaultTax ELSE d0.Items[k].tax

ResolvedItems ==
    [k \in 1..Len(d0.Items) |-> [d0.Items[k] EXCEPT !.tax = ResolvedTax(k)]]

\* C7: an item's unset tax is resolved to DefaultTax by its iteration of
\* appendItems (not before), stays as resolved in every later state of the
\* Build, and appendTotal, which runs after all items are resolved, computes
\* its numbers from the resolved taxes.
C7_TaxResolvedOnce ==
    /\ Len(d.Items) = Len(d0.Items)
    /\ \A k \in 1..Len(d.Items) :
          d.Items[k].tax = IF k <= i THEN ResolvedTax(k) ELSE d0.Items[k].tax
    /\ totals.fault # "unset" =>
          /\ i = Len(d.Items)
          /\ totals = appendTotalCalc(ResolvedItems, d0.Discount)

C7_Witness ==
    /\ pc = "done"
    /\ ret.pdf
    /\ Len(d0.Items) = 2
    /\ d0.Items[1].tax = Nil
    /\ d0.DefaultTax = Amount(DecInt(5))
    /\ d.Items[1].tax = Amount(DecInt(5))
    /\ totals.taxContrib[1] = DecInt(5)
    /\ totals.totalTax # appendTotalCalc(d0.Items, d0.Discount).totalTax

\* C8: a failed Validate (an empty item list) makes Build return the error
\* with no drawing surface and with no layout or drawing action done; a
\* header or footer error returns no drawing surface either; a drawing
\* surface is never returned together with an error.
C8_NoOutputOnError ==
    /\ ret.pdf => ret.err = "nil"
    /\ ret.err \notin {"pending", "nil"} => ~ret.pdf /\ pc = "done"
    /\ ret.err = "validation" => trace = <<>> /\ pages = 0 /\ y = 0
    /\ (pc = "done" /\ Len(d0.Items) = 0) => ret.err = "validation"
    /\ (pc = "done" /\ Len(d0.Items) > 0 /\ d0.Header = "err") => ret.err = "header"
    /\ (pc = "done" /\ Len(d0.Items) > 0 /\ d0.Header # "err" /\ d0.Footer = "err")
          => ret.err = "footer"

C8_Witness ==
    /\ pc = "done"
    /\ Len(d0.Items) = 0
    /\ ret = [pdf |-> FALSE, err |-> "validation"]
    /\ trace = <<>>

\* The place of a layout call in the order of blocks.
Rank(e) ==
    CASE e.ev = "header"      -> 1
      [] e.ev = "footer"      -> 2
      [] e.ev = "addPage" /\ e.line = 46 -> 3
      [] e.ev = "title"       -> 4
      [] e.ev = "metas"       -> 5
      [] e.ev = "company"     -> 6
      [] e.ev = "customer"    -> 7
      [] e.ev = "description" -> 8
      [] e.ev = "tableTitles" -> 9
      [] e.ev = "row"         -> 9
      [] e.ev = "addPage" /\ e.line = 270 -> 9
      [] e.ev = "addPage" /\ e.line = 81  -> 10
      [] e.ev = "notes"       -> 11
      [] e.ev = "totals"      -> 12
      [] e.ev = "paymentTerm" -> 13
      [] OTHER                -> 0

Ranks == {Rank(trace[k]) : k \in 1..Len(trace)}

\* C10: the blocks are emitted in the order chrome, title, metadata, company
\* contact, customer contact, description, item table, notes, totals,
\* payment term, each block outside the item table once at most; the only
\* page break outside the item table comes after the item table and before
\* the notes; a successful Build has emitted every unconditional block.
C10_BlockOrder ==
    /\ \A k \in 1..Len(trace) : Rank(trace[k]) > 0
    /\ \A j, k \in 1..Len(trace) :
          j < k => \/ Rank(trace[j]) < Rank(trace[k])
                   \/ Rank(trace[j]) = 9 /\ Rank(trace[k]) = 9
    /\ ret.pdf => {3, 4, 5, 6, 7, 9, 12} \subseteq Ranks

C10_Witness ==
    /\ pc = "done"
    /\ ret.pdf
    /\ Ranks = 1..13

\* C12: the totals block is never drawn past the page threshold: the check
\* before it breaks the page whenever the block, its leading gap and all of
\* its rows, would end beyond MaxPageHeight.
C12_TotalsWithinPage ==
    /\ pc = "check" =>
          (TotalBottom(y, d.Discount) > MaxPageHeight
              => TotalOffset(y, d.Discount) > MaxPageHeight)
    /\ \A k \in 1..Len(trace) :
          (trace[k].ev = "totals" /\ totals.fault = "none") =>
              TotalBottom(trace[k].y0 - 10, d.Discount) <= MaxPageHeight

\* The blocks drawn one below the other.
InFlow(e) == e.ev \in {"description", "tableTitles", "row", "totals", "paymentTerm"}

\* Event k and the first event after j that is in the flow or a page break.
NextInFlow(j, k) ==
    /\ j < k
    /\ InFlow(trace[k]) \/ trace[k].ev = "addPage"
    /\ \A m \in (j + 1)..(k - 1) : ~InFlow(trace[m]) /\ trace[m].ev # "addPage"

\* The distance Build puts between the cursor a block leaves and the start
\* of the block after it.
Gap(e1, e2) ==
    CASE e2.ev = "tableTitles"                     -> 5
      [] e2.ev = "row" /\ e1.ev = "tableTitles" /\ e1.line = 251 -> 8
      [] e2.ev = "row"                              -> 6
      [] e2.ev = "totals"                           -> 6 + 10
      [] e2.ev = "paymentTerm"                      -> 15
      [] OTHER                                      -> 0

\* C13 as claimed, for the blocks from the description on: every block
\* starts strictly after the end of the block emitted before it; the totals
\* start below the end of the notes.
C13_StartsAfterPrevious ==
    \A k \in 2..Len(trace) :
        (Rank(trace[k - 1]) >= 8 /\ trace[k - 1].ev # "addPage"
            /\ trace[k].ev # "addPage") =>
            trace[k].y0 > trace[k - 1].y1

\* C13: a block of the flow (description, table header, item rows, totals,
\* payment term) starts a fixed gap below the cursor left by the block of
\* the flow before it on the page; the notes do not move the cursor, so the
\* totals start at the same Y as the notes, above the notes' end.
C13_FlowGaps ==
    /\ \A j, k \in 1..Len(trace) :
          (InFlow(trace[j]) /\ InFlow(trace[k]) /\ NextInFlow(j, k)) =>
              /\ trace[k].y0 > trace[j].y1
              /\ trace[k].y0 = trace[j].y1 + Gap(trace[j], trace[k])
    /\ \A k \in 1..Len(trace) :
          (IsEv(k, "notes", 85) /\ IsEv(k + 1, "totals", 88)) =>
              /\ trace[k + 1].y0 = trace[k].y0
              /\ trace[k + 1].y0 < trace[k].y1

C13_Witness ==
    /\ pc = "done"
    /\ ret.pdf
    /\ \E k \in 1..Len(trace) :
          /\ IsEv(k, "row", 266)
          /\ IsEv(k + 1, "notes", 85)
          /\ IsEv(k + 2, "totals", 88)
          /\ IsEv(k + 3, "paymentTerm", 91)
          /\ trace[k + 2].y0 = trace[k + 1].y0
          /\ trace[k + 2].y0 = trace[k].y1 + 16

\* C15: every item row starts with the cursor at MaxPageHeight at most.
C15_RowStartsOnPage ==
    \A k \in 1..Len(trace) :
        trace[k].ev = "row" => trace[k].y0 <= MaxPageHeight

\* C17: Build changes nothing of the document but an unset item tax, which
\* becomes DefaultTax: quantity, unit price and discount of every item, the
\* tax of an item that had one, the length and order of the list, Discount
\* and DefaultTax (and the other fields) stay as passed in.
C17_OnlyTaxDefaultWritten ==
    /\ [d EXCEPT !.Items = d0.Items] = d0
    /\ Len(d.Items) = Len(d0.Items)
    /\ \A k \in 1..Len(d.Items) :
          /\ [d.Items[k] EXCEPT !.tax = d0.Items[k].tax] = d0.Items[k]
          /\ d0.Items[k].tax # Nil => d.Items[k].tax = d0.Items[k].tax
          /\ d0.Items[k].tax = Nil => d.Items[k].tax \in {Nil, d0.DefaultTax}

C17_Witness ==
    /\ pc = "done"
    /\ ret.pdf
    /\ Len(d0.Items) = 2
    /\ d0.DefaultTax = Amount(DecInt(5))
    /\ d0.Items[1].tax = Nil
    /\ d.Items[1].tax = Amount(DecInt(5))
    /\ d0.Items[2].tax = Percent(DecInt(20))
    /\ d.Items[2] = d0.Items[2]

\* C18: once the item table is done, every header drawn again by a page
\* break is followed by an item row: no page break comes after the last item.
C18_HeaderHasRows ==
    pc \notin {"validate", "header", "footer", "firstPage", "title", "metas",
               "company", "customer", "description", "items", "row"} =>
        \A k \in 1..Len(trace) :
            IsEv(k, "tableTitles", 271) => IsEv(k + 1, "row", 266)

====
